---- MODULE Spec2Model ----
(***************************************************************************)
(* Model of proxy_menu.py: the per-port Server thread, the per-connection  *)
(* ConnectionHandler thread (handshake, routing, relay loop) and the       *)
(* operator functions that open and close ports through active_servers.    *)
(*                                                                         *)
(* Two specifications share the module:                                    *)
(*   ConnSpec  one ConnectionHandler with its client and upstream peers,   *)
(*             byte streams kept as sequences of tokens;                   *)
(*   Spec      the operator thread, the Server threads and the registry.   *)
(*                                                                         *)
(* Bytes are abstracted to tokens.  A token is an indivisible fragment of  *)
(* the byte stream:                                                        *)
(*   "Upg"   the text 'Upgrade: websocket' in mixed case                   *)
(*   "upg"   the text 'upgrade: websocket' in lower case                   *)
(*   "XRH:"  b'X-Real-Host: '      "XSP:"  b'X-Split: '                    *)
(*   "XPS:"  b'X-Pass: '           "CRLF"  b'\r\n'                         *)
(*   "SSH"   the text 'SSH'        "lo"    the text '127.0.0.1'            *)
(*   "h"     a host name           ":"     a colon                         *)
(*   "1" "2" decimal digits        "d" "e" "f" client payload bytes        *)
(*   "x" "y" "z" upstream payload bytes                                    *)
(* and, on the wire towards the client, the three fixed response lines     *)
(*   "R101" RESPONSE_WS, "R200" RESPONSE_HTTP, "R502" RESPONSE_ERROR.      *)
(***************************************************************************)
EXTENDS Integers, Sequences, FiniteSets, TLC

\* ------------------------------------------------------------------ bounds

\* recv(1024, MSG_PEEK): the peek window, in tokens.
PeekTokens == 2
\* recv(BUFLEN): the read window, in tokens.
BufTokens == 4
\* Ports the operator may name are 1..MaxPort.
MaxPort == 2
\* Server objects created over a run.
MaxServers == 2
\* Connections accepted over a run.
MaxConns == 1

\* ------------------------------------------------------- program constants

TIMEOUT == 60

RESPONSE_WS == "R101"
RESPONSE_HTTP == "R200"
RESPONSE_ERROR == "R502"

\* PASS = '' : the empty byte string.
PASS == << >>

\* DEFAULT_HOST = "127.0.0.1:22"
DEFAULT_HOST == <<"lo", ":", "2", "2">>

\* ------------------------------------------------------ byte-string helpers

Min(a, b) == IF a < b THEN a ELSE b

\* s[:n]
Take(s, n) == SubSeq(s, 1, Min(n, Len(s)))

\* s[n:]
Drop(s, n) == SubSeq(s, Min(n, Len(s)) + 1, Len(s))

\* bytes.find(t): the first index (1-based) of t in s, 0 when absent (Python's -1).
Find(s, t) ==
    IF \E i \in 1..Len(s) : s[i] = t
    THEN CHOOSE i \in 1..Len(s) : s[i] = t /\ \A j \in 1..(i - 1) : s[j] # t
    ELSE 0

\* t in s
Contains(s, t) == \E i \in 1..Len(s) : s[i] = t

\* bytes.lower() on one token: upper-case letters become lower-case.
LowerTok(t) ==
    CASE t = "Upg" -> "upg"
      [] t = "XRH:" -> "xrh:"
      [] t = "XSP:" -> "xsp:"
      [] t = "XPS:" -> "xps:"
      [] t = "SSH" -> "ssh"
      [] t = "CRLF" -> "CRLF"
      [] OTHER -> t

\* bytes.lower()
Lower(s) == [i \in 1..Len(s) |-> LowerTok(s[i])]

IsPrefix(s, t) == Len(s) <= Len(t) /\ SubSeq(t, 1, Len(s)) = s

Digits == <<"0", "1", "2", "3", "4", "5", "6", "7", "8", "9">>

IsDigit(t) == \E i \in 1..Len(Digits) : Digits[i] = t

DigitVal(t) == (CHOOSE i \in 1..Len(Digits) : Digits[i] = t) - 1

\* int(s) for a string of decimal digits; IntValid(s) is false where int() raises ValueError.
IntValid(s) == s # << >> /\ \A i \in 1..Len(s) : IsDigit(s[i])

RECURSIVE IntOf(_)
IntOf(s) == IF s = << >> THEN 0 ELSE IntOf(SubSeq(s, 1, Len(s) - 1)) * 10 + DigitVal(s[Len(s)])

\* ------------------------------------------- ConnectionHandler: pure parts

\* findHeader(head, header): the bytes between the first 'header: ' and the next
\* '\r\n'; b'' when either is missing.  The token hdr stands for header + b': '.
findHeader(head, hdr) ==
    LET aux == Find(head, hdr) IN
    IF aux = 0 THEN << >>
    ELSE LET rest == Drop(head, aux)
             end == Find(rest, "CRLF")
         IN IF end = 0 THEN << >> ELSE Take(rest, end - 1)

\* run: is_websocket = b'upgrade: websocket' in peek_buffer.lower()
is_websocket_cs(peek) == Contains(peek, "upg")
is_websocket(peek) == Contains(Lower(peek), "upg")

\* process_request: hostPort = findHeader(client_buffer, b'X-Real-Host'), DEFAULT_HOST when empty.
hostPort_default(buf) == DEFAULT_HOST
hostPort_of(buf) ==
    LET h == findHeader(buf, "XRH:") IN IF h = << >> THEN DEFAULT_HOST ELSE h

\* process_request: if self.findHeader(self.client_buffer, b'X-Split'): one more recv.
has_split(buf) == findHeader(buf, "XSP:") # << >>

\* process_request: allow is true when PASS is empty or equals the X-Pass header.
allow(buf) == Len(PASS) = 0 \/ findHeader(buf, "XPS:") = PASS

\* process_request: the send_200_ok argument of method_CONNECT.
send_200_ok(buf) == ~Contains(Lower(buf), "upg")

\* connect_target: i = host.find(':'); port = int(host[i+1:]) if i != -1 else 80;
\* host = host[:i] if i != -1 else host.
parse_ok(path) == LET i == Find(path, ":") IN i = 0 \/ IntValid(Drop(path, i))

parse_addr(path) ==
    LET i == Find(path, ":") IN
    IF i = 0 THEN [host |-> path, port |-> 80]
    ELSE [host |-> Take(path, i - 1), port |-> IntOf(Drop(path, i))]

NoAddr == [host |-> << >>, port |-> 0]

\* socket.sendall(data): the whole of data is written (or an exception is raised).
sendall_short(data) == Take(data, 1)
sendall(data) == data

\* socket.send(data) returning k: only data[:k] is written.
send(data, k) == Take(data, k)

\* The data bytes among what was written to the client (the response lines left out).
IsResponse(t) == t \in {RESPONSE_WS, RESPONSE_HTTP, RESPONSE_ERROR}
RelayedToClient(out) == SelectSeq(out, LAMBDA t : ~IsResponse(t))

\* ------------------------------------------------------------------ state

VARIABLES
    \* the client peer of one accepted connection
    script,          \* bytes the client will still send
    csent,           \* bytes the client has sent
    cin,             \* receive buffer of the client socket: arrived, not yet read
    cstate,          \* "open", "fin" (client closed: end-of-stream) or "rst" (reset)
    cout,            \* everything written to the client socket, in order
    \* the upstream peer
    uscript,         \* bytes the upstream will still send
    usent,           \* bytes the upstream has sent
    tin,             \* receive buffer of the target socket
    tstate,          \* "open", "fin" or "rst"
    tout,            \* everything written to the target socket, in order
    \* ConnectionHandler
    pc,              \* where the handler thread is in run()
    clientSock,      \* self.client as the OS sees it: "open" or "closed"
    clientClosed,    \* self.clientClosed
    target,          \* self.target as the OS sees it: "none", "created", "connected", "closed"
    targetClosed,    \* self.targetClosed
    peek_buffer,     \* run: peek_buffer
    client_buffer,   \* self.client_buffer
    hostPort,        \* process_request: hostPort
    targetAddr,      \* connect_target: (host, port) after parsing
    connects,        \* calls of connect_target made
    tunnelled,       \* doCONNECT has been entered
    hsRead,          \* client bytes consumed by the reads that precede doCONNECT
    count,           \* doCONNECT: count
    shutdown_requested,
    \* the registry, the Server objects and the operator (main) thread
    active_servers,  \* port -> Server
    saved_state,     \* the port list save_state last wrote to STATE_FILE
    srv,             \* the Server objects: thread position and fields
    conn,            \* the ConnectionHandler objects of those servers
    opc,             \* where the main thread is
    op,              \* its locals: port, server
    result           \* the message the last operator call printed

cvars == <<script, csent, cin, cstate, cout, uscript, usent, tin, tstate, tout,
           pc, clientSock, clientClosed, target, targetClosed, peek_buffer,
           client_buffer, hostPort, targetAddr, connects, tunnelled, hsRead, count>>

svars == <<active_servers, saved_state, srv, conn, opc, op, result>>

Ports == 1..MaxPort
ServerIds == 1..MaxServers
ConnIds == 1..MaxConns

\* Holders of a threading.Lock: nobody, the main (operator) thread, the Server's own
\* thread, or the thread of connection c (the number c itself).
Unlocked == 0
MainThread == -1
RunThread == -2

\* A Server after __init__ and before start(): no thread, no socket.
NoServer == [st |-> "unused", port |-> 0, running |-> FALSE, soc |-> "none",
             threads |-> << >>, pending |-> 0, threadsLock |-> Unlocked, logLock |-> Unlocked]

\* A ConnectionHandler slot not yet used by an accept.
NoConn == [st |-> "unused", server |-> 0, clientSock |-> "none", clientClosed |-> FALSE]

NoOp == [input |-> << >>, port |-> 0, server |-> 0, caller |-> "none"]

\* What a client may send over the life of a connection.
ClientScripts ==
    { << >>,
      <<"d", "e">>,
      <<"SSH", "d">>,
      <<"Upg", "d", "e">>,
      <<"d", "e", "upg">>,
      <<"XRH:", "h", "CRLF", "d">>,
      <<"XRH:", "h", ":", "1", "CRLF">>,
      <<"XRH:", "h", ":", "CRLF">>,
      <<"XSP:", "d", "CRLF", "e">> }

\* What the upstream may send once connected.
UpstreamScript == <<"x", "y">>

ConnInit ==
    /\ script \in ClientScripts
    /\ csent = << >>
    /\ cin = << >>
    /\ cstate = "open"
    /\ cout = << >>
    /\ uscript = UpstreamScript
    /\ usent = << >>
    /\ tin = << >>
    /\ tstate = "open"
    /\ tout = << >>
    /\ pc = "peek"
    /\ clientSock = "open"
    /\ clientClosed = FALSE
    /\ target = "none"
    /\ targetClosed = TRUE
    /\ peek_buffer = << >>
    /\ client_buffer = << >>
    /\ hostPort = << >>
    /\ targetAddr = NoAddr
    /\ connects = 0
    /\ tunnelled = FALSE
    /\ hsRead = 0
    /\ count = 0
    /\ shutdown_requested = FALSE
    /\ active_servers = << >>
    /\ saved_state = {}
    /\ srv = [s \in ServerIds |-> NoServer]
    /\ conn = [c \in ConnIds |-> NoConn]
    /\ opc = "menu"
    /\ op = NoOp
    /\ result = "none"

\* ----------------------------------------------------- the connection's peers

\* The client sends its next byte; it arrives in the socket's receive buffer.
ClientSend ==
    /\ pc # "done" /\ cstate = "open" /\ script # << >>
    /\ csent' = Append(csent, Head(script))
    /\ cin' = Append(cin, Head(script))
    /\ script' = Tail(script)
    /\ UNCHANGED <<svars, cstate, cout, uscript, usent, tin, tstate, tout, pc, clientSock,
                   clientClosed, target, targetClosed, peek_buffer, client_buffer,
                   hostPort, targetAddr, connects, tunnelled, hsRead, count,
                   shutdown_requested>>

\* The client closes its side: reads return b'' once the buffer is drained.
ClientFin ==
    /\ pc # "done" /\ cstate = "open"
    /\ cstate' = "fin"
    /\ UNCHANGED <<svars, script, csent, cin, cout, uscript, usent, tin, tstate, tout, pc,
                   clientSock, clientClosed, target, targetClosed, peek_buffer,
                   client_buffer, hostPort, targetAddr, connects, tunnelled, hsRead,
                   count, shutdown_requested>>

\* The client resets the connection: recv, send and shutdown on the socket raise.
ClientRst ==
    /\ pc # "done" /\ cstate # "rst"
    /\ cstate' = "rst"
    /\ UNCHANGED <<svars, script, csent, cin, cout, uscript, usent, tin, tstate, tout, pc,
                   clientSock, clientClosed, target, targetClosed, peek_buffer,
                   client_buffer, hostPort, targetAddr, connects, tunnelled, hsRead,
                   count, shutdown_requested>>

UpstreamSend ==
    /\ pc = "tunnel" /\ target = "connected" /\ tstate = "open" /\ uscript # << >>
    /\ usent' = Append(usent, Head(uscript))
    /\ tin' = Append(tin, Head(uscript))
    /\ uscript' = Tail(uscript)
    /\ UNCHANGED <<svars, script, csent, cin, cstate, cout, tstate, tout, pc, clientSock,
                   clientClosed, target, targetClosed, peek_buffer, client_buffer,
                   hostPort, targetAddr, connects, tunnelled, hsRead, count,
                   shutdown_requested>>

UpstreamFin ==
    /\ pc = "tunnel" /\ target = "connected" /\ tstate = "open"
    /\ tstate' = "fin"
    /\ UNCHANGED <<svars, script, csent, cin, cstate, cout, uscript, usent, tin, tout, pc,
                   clientSock, clientClosed, target, targetClosed, peek_buffer,
                   client_buffer, hostPort, targetAddr, connects, tunnelled, hsRead,
                   count, shutdown_requested>>

UpstreamRst ==
    /\ pc = "tunnel" /\ target = "connected" /\ tstate # "rst"
    /\ tstate' = "rst"
    /\ UNCHANGED <<svars, script, csent, cin, cstate, cout, uscript, usent, tin, tout, pc,
                   clientSock, clientClosed, target, targetClosed, peek_buffer,
                   client_buffer, hostPort, targetAddr, connects, tunnelled, hsRead,
                   count, shutdown_requested>>

\* signal_handler / cleanup_and_exit set the global shutdown_requested.
SignalShutdown ==
    /\ pc = "tunnel" /\ ~shutdown_requested
    /\ shutdown_requested' = TRUE
    /\ UNCHANGED <<cvars, svars>>

\* ---------------------------------------------------- ConnectionHandler.run

\* run: peek_buffer = self.client.recv(1024, socket.MSG_PEEK); if not peek_buffer: return.
\* The socket is blocking (c.setblocking(1)) and has no timeout: the call returns only
\* when bytes have arrived, the client has closed, or the connection was reset.
HandlerPeek ==
    /\ pc = "peek"
    /\ cin # << >> \/ cstate # "open"
    /\ IF cstate = "rst"
       THEN /\ pc' = "close"
            /\ UNCHANGED peek_buffer
       ELSE /\ peek_buffer' = Take(cin, PeekTokens)
            /\ pc' = IF peek_buffer' = << >> THEN "close"
                     ELSE IF is_websocket(peek_buffer') THEN "ws" ELSE "recv"
    /\ UNCHANGED <<svars, script, csent, cin, cstate, cout, uscript, usent, tin, tstate, tout,
                   clientSock, clientClosed, target, targetClosed, client_buffer,
                   hostPort, targetAddr, connects, tunnelled, hsRead, count,
                   shutdown_requested>>

\* run: if is_websocket: self.client.sendall(RESPONSE_WS)
HandlerSendWS ==
    /\ pc = "ws"
    /\ IF cstate = "rst"
       THEN pc' = "close" /\ UNCHANGED cout
       ELSE pc' = "recv" /\ cout' = cout \o sendall(<<RESPONSE_WS>>)
    /\ UNCHANGED <<svars, script, csent, cin, cstate, uscript, usent, tin, tstate, tout,
                   clientSock, clientClosed, target, targetClosed, peek_buffer,
                   client_buffer, hostPort, targetAddr, connects, tunnelled, hsRead,
                   count, shutdown_requested>>

\* run: self.client_buffer = self.client.recv(BUFLEN); if self.client_buffer:
\* process_request() up to its first blocking call.
HandlerRecv ==
    /\ pc = "recv"
    /\ cin # << >> \/ cstate # "open"
    /\ IF cstate = "rst"
       THEN /\ pc' = "close"
            /\ UNCHANGED <<cin, client_buffer, hostPort, hsRead>>
       ELSE /\ client_buffer' = Take(cin, BufTokens)
            /\ cin' = Drop(cin, BufTokens)
            /\ hsRead' = hsRead + Len(client_buffer')
            /\ IF client_buffer' = << >>
               THEN pc' = "close" /\ UNCHANGED hostPort
               ELSE /\ hostPort' = hostPort_of(client_buffer')
                    /\ pc' = IF has_split(client_buffer') THEN "split" ELSE "connect"
    /\ UNCHANGED <<svars, script, csent, cstate, cout, uscript, usent, tin, tstate, tout,
                   clientSock, clientClosed, target, targetClosed, peek_buffer,
                   targetAddr, connects, tunnelled, count, shutdown_requested>>

\* process_request: self.client.recv(BUFLEN), its result thrown away.
HandlerSplit ==
    /\ pc = "split"
    /\ cin # << >> \/ cstate # "open"
    /\ IF cstate = "rst"
       THEN pc' = "close" /\ UNCHANGED <<cin, hsRead>>
       ELSE /\ cin' = Drop(cin, BufTokens)
            /\ hsRead' = hsRead + Len(Take(cin, BufTokens))
            /\ pc' = "connect"
    /\ UNCHANGED <<svars, script, csent, cstate, cout, uscript, usent, tin, tstate, tout,
                   clientSock, clientClosed, target, targetClosed, peek_buffer,
                   client_buffer, hostPort, targetAddr, connects, tunnelled, count,
                   shutdown_requested>>

\* A write of one response line to the client: raises when the client has reset.
Reply(line) == IF cstate = "rst" THEN cout ELSE cout \o sendall(<<line>>)

\* process_request from the allow test on, method_CONNECT and connect_target.
\* res is what the network answers: "noaddr" getaddrinfo raises, "refused" connect
\* raises, "ok" the upstream accepts.  A port that int() rejects raises ValueError;
\* the except clause then formats {port}, which is unbound, and that error leaves
\* connect_target and method_CONNECT: no response line is written.
HandlerConnect ==
    /\ pc = "connect"
    /\ IF ~allow(client_buffer)
       THEN /\ cout' = Reply("R400")
            /\ pc' = "close"
            /\ UNCHANGED <<target, targetClosed, targetAddr, connects, tunnelled, count>>
       ELSE /\ connects' = connects + 1
            /\ IF ~parse_ok(hostPort)
               THEN /\ pc' = "close"
                    /\ UNCHANGED <<cout, target, targetClosed, targetAddr, tunnelled, count>>
               ELSE /\ targetAddr' = parse_addr(hostPort)
                    /\ \E res \in {"noaddr", "refused", "ok"} :
                         CASE res = "noaddr" ->
                                /\ cout' = Reply(RESPONSE_ERROR)
                                /\ pc' = "close"
                                /\ UNCHANGED <<target, targetClosed, tunnelled, count>>
                           [] res = "refused" ->
                                /\ target' = "created"
                                /\ targetClosed' = FALSE
                                /\ cout' = Reply(RESPONSE_ERROR)
                                /\ pc' = "close"
                                /\ UNCHANGED <<tunnelled, count>>
                           [] res = "ok" ->
                                /\ target' = "connected"
                                /\ targetClosed' = FALSE
                                /\ IF send_200_ok(client_buffer) /\ cstate = "rst"
                                   THEN /\ pc' = "close"
                                        /\ UNCHANGED <<cout, tunnelled, count>>
                                   ELSE /\ cout' = IF send_200_ok(client_buffer)
                                                   THEN Reply(RESPONSE_HTTP) ELSE cout
                                        /\ pc' = "tunnel"
                                        /\ tunnelled' = TRUE
                                        /\ count' = 0
    /\ UNCHANGED <<svars, script, csent, cin, cstate, uscript, usent, tin, tstate, tout,
                   clientSock, clientClosed, peek_buffer, client_buffer, hostPort,
                   hsRead, shutdown_requested>>

\* doCONNECT: if count > TIMEOUT: error = True
timed_out(n) == n > TIMEOUT

\* doCONNECT: count += 1 at the head of a pass, count = 0 after data was forwarded
idle_count_kept(n, forwarded) == n + 1
idle_count(n, forwarded) == IF forwarded THEN 0 ELSE n + 1

\* doCONNECT: one pass of the while loop, from its test to the count > TIMEOUT test.
\* select returns the sockets that are readable: bytes buffered, end-of-stream or a
\* reset pending.  The client is served before the target (the order of socs).
\* k is what self.client.send(data) reports as sent.
HandlerTunnel ==
    /\ pc = "tunnel"
    /\ IF shutdown_requested
       THEN /\ pc' = "close"
            /\ UNCHANGED <<cin, tin, cout, tout, count>>
       ELSE LET cReady == cin # << >> \/ cstate # "open"
                tReady == tin # << >> \/ tstate # "open"
                cRead == cReady /\ cstate # "rst" /\ cin # << >>
                cData == Take(cin, BufTokens)
                cSent == cRead /\ tstate # "rst"
                cErr == cReady /\ ~cSent
                tRead == tReady /\ ~cErr /\ tstate # "rst" /\ tin # << >>
                tData == Take(tin, BufTokens)
                tSent == tRead /\ cstate # "rst"
                tErr == tReady /\ ~cErr /\ ~tSent
                count1 == idle_count(count, cSent \/ tSent)
                error == cErr \/ tErr \/ timed_out(count1)
            IN /\ cin' = IF cRead THEN Drop(cin, BufTokens) ELSE cin
               /\ tout' = IF cSent THEN tout \o sendall(cData) ELSE tout
               /\ tin' = IF tRead THEN Drop(tin, BufTokens) ELSE tin
               /\ \E k \in 1..(IF tSent THEN Len(tData) ELSE 1) :
                     cout' = IF tSent THEN cout \o send(tData, k) ELSE cout
               /\ count' = count1
               /\ pc' = IF error THEN "close" ELSE "tunnel"
    /\ UNCHANGED <<svars, script, csent, cstate, uscript, usent, tstate, clientSock,
                   clientClosed, target, targetClosed, peek_buffer, client_buffer,
                   hostPort, targetAddr, connects, tunnelled, hsRead,
                   shutdown_requested>>

\* ConnectionHandler.close, called from run's finally.  shutdown() raises on a socket
\* whose connection was reset or that never connected; the bare except skips the
\* close() that follows it, and the flag is set all the same.
HandlerClose ==
    /\ pc = "close"
    /\ clientSock' = IF ~clientClosed /\ cstate # "rst" THEN "closed" ELSE clientSock
    /\ clientClosed' = TRUE
    /\ target' = IF ~targetClosed /\ target = "connected" /\ tstate # "rst"
                 THEN "closed" ELSE target
    /\ targetClosed' = TRUE
    /\ pc' = "done"
    /\ UNCHANGED <<svars, script, csent, cin, cstate, cout, uscript, usent, tin, tstate, tout,
                   peek_buffer, client_buffer, hostPort, targetAddr, connects,
                   tunnelled, hsRead, count, shutdown_requested>>

HandlerNext ==
    \/ HandlerPeek
    \/ HandlerSendWS
    \/ HandlerRecv
    \/ HandlerSplit
    \/ HandlerConnect
    \/ HandlerTunnel
    \/ HandlerClose

PeerNext ==
    \/ ClientSend
    \/ ClientFin
    \/ ClientRst
    \/ UpstreamSend
    \/ UpstreamFin
    \/ UpstreamRst
    \/ SignalShutdown

vars == <<cvars, svars, shutdown_requested>>

ConnNext == HandlerNext \/ PeerNext

ConnSpec == ConnInit /\ [][ConnNext]_vars

\* ------------------------------------------------- operator (main thread)

\* What the operator may type at the port prompt: a port in range, 0 (out of range),
\* or text that is no number.
PortStr(p) == <<Digits[p + 1]>>
UserInputs == {PortStr(p) : p \in 0..MaxPort} \cup {<<"h">>}

\* A Server slot not yet used; 0 when MaxServers objects exist already.
FreeServer ==
    IF \E s \in ServerIds : srv[s].st = "unused"
    THEN CHOOSE s \in ServerIds : srv[s].st = "unused" /\ \A t \in 1..(s - 1) : srv[t].st # "unused"
    ELSE 0

\* A ConnectionHandler object that can be created: one never created, or one whose
\* thread has ended and that no Server refers to any more.
Unreferenced(c) ==
    \/ conn[c].st = "unused"
    \/ /\ conn[c].st = "done"
       /\ \A s \in ServerIds : ~Contains(srv[s].threads, c) /\ srv[s].pending # c

FreeConn ==
    IF \E c \in ConnIds : Unreferenced(c)
    THEN CHOOSE c \in ConnIds : Unreferenced(c) /\ \A d \in 1..(c - 1) : ~Unreferenced(d)
    ELSE 0

\* dict.pop(port): the mapping without the key.
Pop(m, k) == [q \in DOMAIN m \ {k} |-> m[q]]

\* active_servers[port] = server
Store(m, k, v) == [q \in DOMAIN m \cup {k} |-> IF q = k THEN v ELSE m[q]]

\* list.remove(x): the list without the first occurrence of x.
Remove(l, x) ==
    LET i == Find(l, x) IN
    IF i = 0 THEN l ELSE SubSeq(l, 1, i - 1) \o SubSeq(l, i + 1, Len(l))

\* save_state: json.dump(list(active_servers.keys())).
Keys(m) == DOMAIN m

\* main_panel: the menu reads a choice ('2' start_proxy_port, '3' stop_proxy_port) and
\* the chosen function reads the port the operator types.
Menu(call, inp) ==
    /\ opc = "menu" /\ ~shutdown_requested
    /\ (call = "start" /\ IntValid(inp) /\ IntOf(inp) \in Ports \ DOMAIN active_servers)
          => FreeServer # 0
    /\ opc' = call
    /\ op' = [NoOp EXCEPT !.input = inp]
    /\ result' = "none"
    /\ UNCHANGED <<cvars, shutdown_requested, active_servers, saved_state, srv, conn>>

\* start_proxy_port: if port in active_servers.
start_refuses_never(port) == FALSE
start_refuses(port) == port \in DOMAIN active_servers

\* start_proxy_port from int(user_input) to server.start().
start_proxy_port ==
    /\ opc = "start"
    /\ IF ~IntValid(op.input)
       THEN /\ result' = "invalid_input"
            /\ opc' = "menu"
            /\ op' = NoOp
            /\ UNCHANGED srv
       ELSE LET port == IntOf(op.input) IN
            IF start_refuses(port)
            THEN /\ result' = "in_use"
                 /\ opc' = "menu"
                 /\ op' = NoOp
                 /\ UNCHANGED srv
            ELSE IF ~(0 < port /\ port < 65536)
            THEN /\ result' = "invalid_port"
                 /\ opc' = "menu"
                 /\ op' = NoOp
                 /\ UNCHANGED srv
            ELSE /\ result' = "starting"
                 /\ srv' = [srv EXCEPT ![FreeServer] = [NoServer EXCEPT !.st = "start", !.port = port]]
                 /\ op' = [NoOp EXCEPT !.port = port, !.server = FreeServer, !.caller = "start"]
                 /\ opc' = "started"
    /\ UNCHANGED <<cvars, shutdown_requested, active_servers, saved_state, conn>>

\* start_proxy_port after server.start(): if server.running: store, save_state.
\* saved is whether save_state could write STATE_FILE; its exception is not caught in
\* start_proxy_port and reaches the handler in __main__, which calls cleanup_and_exit.
start_proxy_port_check ==
    /\ opc = "started"
    /\ IF srv[op.server].running
       THEN /\ active_servers' = Store(active_servers, op.port, op.server)
            /\ \E saved \in BOOLEAN :
                 IF saved
                 THEN /\ saved_state' = Keys(active_servers')
                      /\ result' = "started"
                      /\ opc' = "menu"
                      /\ UNCHANGED shutdown_requested
                 ELSE /\ opc' = "cleanup"
                      /\ shutdown_requested' = TRUE
                      /\ UNCHANGED <<saved_state, result>>
       ELSE /\ opc' = "menu"
            /\ UNCHANGED <<active_servers, saved_state, result, shutdown_requested>>
    /\ op' = NoOp
    /\ UNCHANGED <<cvars, srv, conn>>

\* stop_proxy_port: the Server that port names in active_servers, 0 when there is none.
StopTarget_scan(port) ==
    IF \E s \in ServerIds : srv[s].port = port /\ srv[s].running
    THEN CHOOSE s \in ServerIds : srv[s].port = port /\ srv[s].running
    ELSE 0
StopTarget(port) == IF port \in DOMAIN active_servers THEN active_servers[port] ELSE 0

\* stop_proxy_port from int(user_input) to the first statement of Server.close
\* (self.running = False).
stop_proxy_port ==
    /\ opc = "stop"
    /\ IF ~IntValid(op.input)
       THEN /\ result' = "invalid_input"
            /\ opc' = "menu"
            /\ op' = NoOp
            /\ UNCHANGED <<srv, active_servers>>
       ELSE LET port == IntOf(op.input)
                s == StopTarget(port)
            IN IF s = 0
               THEN /\ result' = "no_proxy"
                    /\ opc' = "menu"
                    /\ op' = NoOp
                    /\ UNCHANGED <<srv, active_servers>>
               ELSE /\ result' = "stopping"
                    /\ active_servers' = Pop(active_servers, port)
                    /\ srv' = [srv EXCEPT ![s].running = FALSE]
                    /\ op' = [NoOp EXCEPT !.port = port, !.server = s, !.caller = "stop"]
                    /\ opc' = "close_lock"
    /\ UNCHANGED <<cvars, shutdown_requested, saved_state, conn>>

\* Leaving a with-block releases the lock.
Release_never(l) == l
Release(l) == Unlocked

\* close_all_connections: under threadsLock, c.close() for every c of self.threads.
\* R holds the connections whose client has reset: shutdown() raises there, close() is
\* skipped and the flag is set all the same.
CloseAll_every(s, R) ==
    [c \in ConnIds |->
        IF conn[c].st # "unused"
        THEN [conn[c] EXCEPT
                !.clientSock = IF ~conn[c].clientClosed /\ c \notin R THEN "closed" ELSE @,
                !.clientClosed = TRUE]
        ELSE conn[c]]
CloseAll(s, R) ==
    [c \in ConnIds |->
        IF Contains(srv[s].threads, c)
        THEN [conn[c] EXCEPT
                !.clientSock = IF ~conn[c].clientClosed /\ c \notin R THEN "closed" ELSE @,
                !.clientClosed = TRUE]
        ELSE conn[c]]

\* Server.close: self.close_all_connections(): with self.threadsLock (acquire; the
\* thread waits while another holds the lock).
ServerClose_lock ==
    /\ opc = "close_lock"
    /\ srv[op.server].threadsLock = Unlocked
    /\ srv' = [srv EXCEPT ![op.server].threadsLock = MainThread]
    /\ opc' = "close_conns"
    /\ UNCHANGED <<cvars, shutdown_requested, active_servers, saved_state, conn, op, result>>

\* Server.close: self.close_all_connections(): the loop over self.threads, then the
\* lock is released.
ServerClose_conns ==
    /\ opc = "close_conns"
    /\ \E R \in SUBSET {c \in ConnIds : Contains(srv[op.server].threads, c)} :
          conn' = CloseAll(op.server, R)
    /\ srv' = [srv EXCEPT ![op.server].threadsLock = Release(@)]
    /\ opc' = "close_soc"
    /\ UNCHANGED <<cvars, shutdown_requested, active_servers, saved_state, op, result>>

\* Server.close: try: self.soc.shutdown(SHUT_RDWR); self.soc.close(); except
\* socket.error: pass.  err: shutdown() raises socket.error, so close() is not reached
\* and the socket stays as it was.  On a socket that run's finally has closed already
\* shutdown() always raises.
shutdown_close(soc, err) == IF soc = "listening" /\ ~err THEN "closed" ELSE soc

\* Server.close: if self.soc: shutdown, close, socket.error ignored; then back in the
\* caller: stop_proxy_port saves the state and reports, cleanup_and_exit goes on.
ServerClose_soc ==
    /\ opc = "close_soc"
    /\ \E err \in BOOLEAN : srv' = [srv EXCEPT ![op.server].soc = shutdown_close(@, err)]
    /\ IF op.caller = "stop"
       THEN \E saved \in BOOLEAN :
               IF saved
               THEN /\ saved_state' = Keys(active_servers)
                    /\ result' = "stopped"
                    /\ opc' = "menu"
                    /\ UNCHANGED shutdown_requested
               ELSE /\ opc' = "cleanup"
                    /\ shutdown_requested' = TRUE
                    /\ UNCHANGED <<saved_state, result>>
       ELSE /\ opc' = "cleanup"
            /\ UNCHANGED <<saved_state, result, shutdown_requested>>
    /\ op' = NoOp
    /\ UNCHANGED <<cvars, active_servers, conn>>

\* signal_handler: SIGINT or SIGTERM interrupts the main thread wherever it is; the
\* first one sets shutdown_requested and runs cleanup_and_exit.
signal_handler ==
    /\ opc # "exited" /\ ~shutdown_requested
    /\ shutdown_requested' = TRUE
    /\ opc' = "cleanup"
    /\ op' = NoOp
    /\ UNCHANGED <<cvars, active_servers, saved_state, srv, conn, result>>

\* sys.exit(0) in the main thread ends the process: the Server and ConnectionHandler
\* threads are daemon threads and end with it, and the system closes every socket the
\* process holds and frees its locks.
ServerAtExit(r) ==
    IF r.st = "unused" THEN r
    ELSE [r EXCEPT !.st = "exited",
                   !.soc = IF @ = "none" THEN @ ELSE "closed",
                   !.pending = 0,
                   !.threadsLock = Unlocked,
                   !.logLock = Unlocked]

ConnAtExit(r) ==
    IF r.st = "unused" THEN r
    ELSE [r EXCEPT !.st = "done", !.clientSock = "closed"]

\* cleanup_and_exit: for port in list(active_servers.keys()): pop(port).close();
\* then sys.exit(0).
cleanup_and_exit ==
    /\ opc = "cleanup"
    /\ IF DOMAIN active_servers = {}
       THEN /\ opc' = "exited"
            /\ srv' = [s \in ServerIds |-> ServerAtExit(srv[s])]
            /\ conn' = [c \in ConnIds |-> ConnAtExit(conn[c])]
            /\ UNCHANGED <<active_servers, op>>
       ELSE \E port \in DOMAIN active_servers :
               /\ active_servers' = Pop(active_servers, port)
               /\ srv' = [srv EXCEPT ![active_servers[port]].running = FALSE]
               /\ op' = [NoOp EXCEPT !.port = port, !.server = active_servers[port],
                                     !.caller = "cleanup"]
               /\ opc' = "close_lock"
               /\ UNCHANGED conn
    /\ UNCHANGED <<cvars, shutdown_requested, saved_state, result>>

\* ------------------------------------------------------------- Server.run

\* No other socket of the process listens on the port.
PortFree(port) == \A t \in ServerIds : ~(srv[t].soc = "listening" /\ srv[t].port = port)

\* run: socket, setsockopt, settimeout, bind, listen, self.running = True; on an
\* exception the error is logged, running is set False and the thread ends, the
\* socket it created left as it is.  ok is false when something outside the process
\* holds the port.
Server_bind(s) ==
    /\ opc # "exited" /\ srv[s].st = "start"
    /\ \E ok \in BOOLEAN :
          srv' = [srv EXCEPT ![s] =
                    IF ok /\ PortFree(srv[s].port)
                    THEN [@ EXCEPT !.soc = "listening", !.running = TRUE, !.st = "loop"]
                    ELSE [@ EXCEPT !.soc = "open", !.running = FALSE, !.st = "log"]]
    /\ UNCHANGED <<cvars, shutdown_requested, active_servers, saved_state, conn, opc, op, result>>

\* run: except Exception: self.printLog(...): with self.logLock (acquire).
Server_printLog_lock(s) ==
    /\ opc # "exited" /\ srv[s].st = "log"
    /\ srv[s].logLock = Unlocked
    /\ srv' = [srv EXCEPT ![s].logLock = RunThread, ![s].st = "printLog"]
    /\ UNCHANGED <<cvars, shutdown_requested, active_servers, saved_state, conn, opc, op, result>>

\* printLog: print, the lock is released; run: self.running = False; return.
Server_printLog(s) ==
    /\ opc # "exited" /\ srv[s].st = "printLog"
    /\ srv' = [srv EXCEPT ![s].logLock = Release(@), ![s].st = "exited"]
    /\ UNCHANGED <<cvars, shutdown_requested, active_servers, saved_state, conn, opc, op, result>>

\* run: while self.running and not shutdown_requested
Server_loop(s) ==
    /\ opc # "exited" /\ srv[s].st = "loop"
    /\ srv' = [srv EXCEPT ![s].st = IF srv[s].running /\ ~shutdown_requested
                                    THEN "accept" ELSE "finally"]
    /\ UNCHANGED <<cvars, shutdown_requested, active_servers, saved_state, conn, opc, op, result>>

\* run: except socket.timeout: continue, and the while test that follows it.  The
\* listening socket has a 2 s timeout, so a thread waiting in accept() comes back to
\* the test; while the test holds it waits again, which changes nothing.
Server_accept_timeout(s) ==
    /\ opc # "exited" /\ srv[s].st = "accept" /\ srv[s].soc = "listening"
    /\ ~(srv[s].running /\ ~shutdown_requested)
    /\ srv' = [srv EXCEPT ![s].st = "finally"]
    /\ UNCHANGED <<cvars, shutdown_requested, active_servers, saved_state, conn, opc, op, result>>

\* run: c, addr = self.soc.accept(); conn = ConnectionHandler(c, self, addr); conn.start()
Server_accept(s) ==
    /\ opc # "exited" /\ srv[s].st = "accept" /\ srv[s].soc = "listening"
    /\ FreeConn # 0
    /\ conn' = [conn EXCEPT ![FreeConn] =
                  [st |-> "run", server |-> s, clientSock |-> "open", clientClosed |-> FALSE]]
    /\ srv' = [srv EXCEPT ![s].st = "add", ![s].pending = FreeConn]
    /\ UNCHANGED <<cvars, shutdown_requested, active_servers, saved_state, opc, op, result>>

\* run: self.addConn(conn): with self.threadsLock (acquire).
Server_addConn_lock(s) ==
    /\ opc # "exited" /\ srv[s].st = "add"
    /\ srv[s].threadsLock = Unlocked
    /\ srv' = [srv EXCEPT ![s].threadsLock = RunThread, ![s].st = "addConn"]
    /\ UNCHANGED <<cvars, shutdown_requested, active_servers, saved_state, conn, opc, op, result>>

\* addConn: append when self.running; the lock is released.
Server_addConn(s) ==
    /\ opc # "exited" /\ srv[s].st = "addConn"
    /\ srv' = [srv EXCEPT ![s].threads = IF srv[s].running THEN Append(@, srv[s].pending) ELSE @,
                          ![s].pending = 0,
                          ![s].threadsLock = Release(@),
                          ![s].st = "loop"]
    /\ UNCHANGED <<cvars, shutdown_requested, active_servers, saved_state, conn, opc, op, result>>

\* run: except socket.error: break.  accept() fails because Server.close shut the
\* socket down, or for a reason of the system's (no descriptor left, a connection
\* aborted before it was accepted).
Server_accept_error(s) ==
    /\ opc # "exited" /\ srv[s].st = "accept"
    /\ srv' = [srv EXCEPT ![s].st = "finally"]
    /\ UNCHANGED <<cvars, shutdown_requested, active_servers, saved_state, conn, opc, op, result>>

\* run: finally: self.close_all_connections(): with self.threadsLock (acquire).
Server_finally_lock(s) ==
    /\ opc # "exited" /\ srv[s].st = "finally"
    /\ srv[s].threadsLock = Unlocked
    /\ srv' = [srv EXCEPT ![s].threadsLock = RunThread, ![s].st = "finally_conns"]
    /\ UNCHANGED <<cvars, shutdown_requested, active_servers, saved_state, conn, opc, op, result>>

\* run: finally: self.close_all_connections(): the loop, then the lock is released.
Server_finally_conns(s) ==
    /\ opc # "exited" /\ srv[s].st = "finally_conns"
    /\ \E R \in SUBSET {c \in ConnIds : Contains(srv[s].threads, c)} :
          conn' = CloseAll(s, R)
    /\ srv' = [srv EXCEPT ![s].threadsLock = Release(@), ![s].st = "finally_soc"]
    /\ UNCHANGED <<cvars, shutdown_requested, active_servers, saved_state, opc, op, result>>

\* run: finally: if self.soc: self.soc.close()
Server_finally_soc(s) ==
    /\ opc # "exited" /\ srv[s].st = "finally_soc"
    /\ srv' = [srv EXCEPT ![s].soc = "closed", ![s].st = "exited"]
    /\ UNCHANGED <<cvars, shutdown_requested, active_servers, saved_state, conn, opc, op, result>>

\* ------------------------------------- ConnectionHandler, as the Server sees it

\* method_CONNECT, connect_target and run's except call self.server.printLog(...):
\* with self.logLock (acquire).
Conn_printLog_lock(c) ==
    /\ opc # "exited" /\ conn[c].st = "run"
    /\ srv[conn[c].server].logLock = Unlocked
    /\ srv' = [srv EXCEPT ![conn[c].server].logLock = c]
    /\ conn' = [conn EXCEPT ![c].st = "printLog"]
    /\ UNCHANGED <<cvars, shutdown_requested, active_servers, saved_state, opc, op, result>>

\* printLog: print, the lock is released, and the handler goes on.
Conn_printLog(c) ==
    /\ opc # "exited" /\ conn[c].st = "printLog"
    /\ srv' = [srv EXCEPT ![conn[c].server].logLock = Release(@)]
    /\ conn' = [conn EXCEPT ![c].st = "run"]
    /\ UNCHANGED <<cvars, shutdown_requested, active_servers, saved_state, opc, op, result>>

\* run reaches its finally (the client is gone, a step failed, or close() from the
\* Server's thread closed the sockets under it): self.close().  rst: the client has
\* reset, shutdown() raises and close() is skipped.
Conn_close_crash(c) ==
    /\ opc # "exited" /\ conn[c].st = "run"
    /\ \E rst \in BOOLEAN :
          conn' = [conn EXCEPT
                     ![c].clientSock = IF ~conn[c].clientClosed /\ ~rst THEN "closed" ELSE @,
                     ![c].clientClosed = TRUE,
                     ![c].st = "closed"]
    /\ srv' = [srv EXCEPT ![conn[c].server].running = FALSE]
    /\ UNCHANGED <<cvars, shutdown_requested, active_servers, saved_state, opc, op, result>>
Conn_close(c) ==
    /\ opc # "exited" /\ conn[c].st = "run"
    /\ \E rst \in BOOLEAN :
          conn' = [conn EXCEPT
                     ![c].clientSock = IF ~conn[c].clientClosed /\ ~rst THEN "closed" ELSE @,
                     ![c].clientClosed = TRUE,
                     ![c].st = "closed"]
    /\ UNCHANGED <<cvars, shutdown_requested, active_servers, saved_state, srv, opc, op, result>>

\* run: finally: self.server.removeConn(self): with self.threadsLock (acquire).
Conn_removeConn_lock(c) ==
    /\ opc # "exited" /\ conn[c].st = "closed"
    /\ srv[conn[c].server].threadsLock = Unlocked
    /\ srv' = [srv EXCEPT ![conn[c].server].threadsLock = c]
    /\ conn' = [conn EXCEPT ![c].st = "removeConn"]
    /\ UNCHANGED <<cvars, shutdown_requested, active_servers, saved_state, opc, op, result>>

\* removeConn: self.threads.remove(conn), ValueError ignored; the lock is released.
Conn_removeConn(c) ==
    /\ opc # "exited" /\ conn[c].st = "removeConn"
    /\ srv' = [srv EXCEPT ![conn[c].server].threads = Remove(@, c),
                          ![conn[c].server].threadsLock = Release(@)]
    /\ conn' = [conn EXCEPT ![c].st = "done"]
    /\ UNCHANGED <<cvars, shutdown_requested, active_servers, saved_state, opc, op, result>>

Init ==
    /\ script = << >>
    /\ csent = << >>
    /\ cin = << >>
    /\ cstate = "open"
    /\ cout = << >>
    /\ uscript = << >>
    /\ usent = << >>
    /\ tin = << >>
    /\ tstate = "open"
    /\ tout = << >>
    /\ pc = "done"
    /\ clientSock = "closed"
    /\ clientClosed = TRUE
    /\ target = "none"
    /\ targetClosed = TRUE
    /\ peek_buffer = << >>
    /\ client_buffer = << >>
    /\ hostPort = << >>
    /\ targetAddr = NoAddr
    /\ connects = 0
    /\ tunnelled = FALSE
    /\ hsRead = 0
    /\ count = 0
    /\ shutdown_requested = FALSE
    /\ active_servers = << >>
    /\ saved_state = {}
    /\ srv = [s \in ServerIds |-> NoServer]
    /\ conn = [c \in ConnIds |-> NoConn]
    /\ opc = "menu"
    /\ op = NoOp
    /\ result = "none"

Next ==
    \/ \E call \in {"start", "stop"}, inp \in UserInputs : Menu(call, inp)
    \/ start_proxy_port
    \/ start_proxy_port_check
    \/ stop_proxy_port
    \/ ServerClose_lock
    \/ ServerClose_conns
    \/ ServerClose_soc
    \/ signal_handler
    \/ cleanup_and_exit
    \/ \E s \in ServerIds :
          \/ Server_bind(s)
          \/ Server_printLog_lock(s)
          \/ Server_printLog(s)
          \/ Server_loop(s)
          \/ Server_accept_timeout(s)
          \/ Server_accept(s)
          \/ Server_addConn_lock(s)
          \/ Server_addConn(s)
          \/ Server_accept_error(s)
          \/ Server_finally_lock(s)
          \/ Server_finally_conns(s)
          \/ Server_finally_soc(s)
    \/ \E c \in ConnIds :
          \/ Conn_printLog_lock(c)
          \/ Conn_printLog(c)
          \/ Conn_close(c)
          \/ Conn_removeConn_lock(c)
          \/ Conn_removeConn(c)

Spec == Init /\ [][Next]_vars

\* Fairness: the handler is a started thread, so the scheduler runs it whenever one
\* of its steps can be taken.  Nothing obliges the peers to act.
FairConnSpec == ConnSpec /\ WF_vars(HandlerNext)

\* --------------------------------------------------------------- C1

\* C1 as claimed: whatever the client sends, the first write to the client is the
\* 101 line and the second is the 200 line.
C1_AsClaimed ==
    /\ Len(cout) >= 1 => cout[1] = RESPONSE_WS
    /\ Len(cout) >= 2 => cout[2] = RESPONSE_HTTP

\* C1 (amended): the 101 line is written only as the first write and only when the
\* peeked bytes hold 'upgrade: websocket' in any case, and it has been written once
\* the handler is past that step; the 200 line is written only after a successful
\* upstream connect for a first payload without that header, so never together with
\* the 101 line; a client that has sent nothing has been written nothing.
C1_Handshake ==
    /\ \A i \in 1..Len(cout) : cout[i] = RESPONSE_WS => i = 1
    /\ Contains(cout, RESPONSE_WS) => Contains(Lower(peek_buffer), "upg")
    /\ (pc \in {"recv", "split", "connect", "tunnel"} /\ Contains(Lower(peek_buffer), "upg"))
          => (Len(cout) >= 1 /\ cout[1] = RESPONSE_WS)
    /\ Contains(cout, RESPONSE_HTTP) =>
          /\ cout[1] = RESPONSE_HTTP
          /\ tunnelled
          /\ ~Contains(Lower(client_buffer), "upg")
          /\ \A i \in 2..Len(cout) : cout[i] # RESPONSE_HTTP
    /\ (tunnelled /\ ~Contains(Lower(client_buffer), "upg")) => Contains(cout, RESPONSE_HTTP)
    /\ csent = << >> => cout = << >>

\* A mixed-case upgrade request was peeked, answered with 101 and tunnelled without 200.
C1_Witness ==
    /\ pc = "tunnel"
    /\ Contains(peek_buffer, "Upg")
    /\ cout = <<RESPONSE_WS>>

\* --------------------------------------------------------------- C2

\* C2 as claimed: during a tunnel every byte the client has sent, the first payload
\* included, is either written to the upstream or still unread, in order.
C2_AsClaimed ==
    /\ IsPrefix(tout, csent)
    /\ pc = "tunnel" => csent = tout \o cin

\* C2 (amended): the bytes taken by the reads that precede the tunnel (the first
\* payload, and the extra read made for an X-Split header) are not forwarded; every
\* byte the client sends after them is delivered to the upstream once, in order and
\* unmodified: what is written to the upstream is always a prefix of those bytes, and
\* while the tunnel runs each of them is either written or still unread.
C2_Relay ==
    /\ IsPrefix(tout, Drop(csent, hsRead))
    /\ pc = "tunnel" => Drop(csent, hsRead) = tout \o cin
    /\ ~tunnelled => tout = << >>
    /\ tunnelled => hsRead >= 1

\* Two bytes that followed the first payload reached the upstream in one chunk.
C2_Witness ==
    /\ pc = "tunnel"
    /\ hsRead = 1
    /\ csent = <<"d", "e", "upg">>
    /\ tout = <<"e", "upg">>

\* --------------------------------------------------------------- C3

\* C3: while the tunnel runs, every byte the upstream has sent is either written to
\* the client or still unread, in order: each chunk read is written in full.
C3_AsClaimed ==
    /\ IsPrefix(RelayedToClient(cout), usent)
    /\ pc = "tunnel" => usent = RelayedToClient(cout) \o tin

\* --------------------------------------------------------------- C4

\* The addresses the claim speaks of: loopback:22 and loopback:1194.
SSHAddr == [host |-> <<"lo">>, port |-> 22]
AltAddr == [host |-> <<"lo">>, port |-> 1194]

\* C4 as claimed: the upstream is the SSH address when the first payload is empty or
\* holds SSH, the alternate address otherwise.
C4_AsClaimed ==
    connects > 0 =>
        /\ targetAddr # NoAddr
        /\ targetAddr = IF client_buffer = << >> \/ Contains(client_buffer, "SSH")
                        THEN SSHAddr ELSE AltAddr

\* C4 (amended): routing is reached only with a non-empty first payload; the upstream
\* is the host:port value of the payload's X-Real-Host header when that header is
\* there with a non-empty value ended by CRLF (port 80 when the value has no colon),
\* and 127.0.0.1:22 otherwise; whether the payload holds SSH changes nothing.
C4_Routing ==
    /\ connects > 0 => client_buffer # << >>
    /\ targetAddr # NoAddr =>
          LET v == findHeader(client_buffer, "XRH:")
              i == Find(v, ":")
          IN /\ v = << >> => targetAddr = SSHAddr
             /\ (v # << >> /\ i = 0) => targetAddr = [host |-> v, port |-> 80]
             /\ (v # << >> /\ i > 0) =>
                    /\ targetAddr.host = SubSeq(v, 1, i - 1)
                    /\ targetAddr.port = IntOf(SubSeq(v, i + 1, Len(v)))
    /\ (targetAddr # NoAddr /\ client_buffer \in {<<"d">>, <<"d", "e">>, <<"SSH">>, <<"XRH:", "h">>})
          => targetAddr = SSHAddr
    /\ (targetAddr # NoAddr /\ client_buffer = <<"XRH:", "h", "CRLF", "d">>)
          => targetAddr = [host |-> <<"h">>, port |-> 80]
    /\ (targetAddr # NoAddr /\ client_buffer = <<"XRH:", "h", ":", "1">>)
          => targetAddr = SSHAddr
    /\ client_buffer = <<"XRH:", "h", ":", "CRLF">> => targetAddr = NoAddr

\* A payload without SSH was routed by its X-Real-Host header and is being tunnelled.
C4_Witness ==
    /\ pc = "tunnel"
    /\ client_buffer = <<"XRH:", "h", "CRLF", "d">>
    /\ targetAddr = [host |-> <<"h">>, port |-> 80]

\* --------------------------------------------------------------- C5

\* C5: a connection whose client stays connected and silent eventually has an
\* upstream connection to the SSH address.
C5_AsClaimed ==
    <>(csent # << >> \/ cstate # "open" \/ (target = "connected" /\ targetAddr = SSHAddr))

\* --------------------------------------------------------------- C6

\* C6: once a connection whose upstream connect failed has ended, one connect attempt
\* was made, no tunnel was started, nothing was forwarded and the client socket is
\* closed.
C6_AsClaimed ==
    (pc = "done" /\ connects > 0 /\ target \in {"none", "created"}) =>
        /\ connects = 1
        /\ ~tunnelled
        /\ tout = << >>
        /\ clientSock = "closed"

\* --------------------------------------------------------------- C7

\* C7: with the operator back at the menu, every Server that is bound, listening and
\* running is the one active_servers holds for its port.
C7_AsClaimed ==
    (opc = "menu" /\ ~shutdown_requested) =>
        \A s \in ServerIds :
            (srv[s].soc = "listening" /\ srv[s].running) =>
                /\ srv[s].port \in DOMAIN active_servers
                /\ active_servers[srv[s].port] = s

\* --------------------------------------------------------------- C8

\* C8: outside process shutdown, every key of active_servers maps to a Server whose
\* running flag is set, whose thread is in its accept loop and whose listening socket
\* is open.
C8_AsClaimed ==
    ~shutdown_requested =>
        \A p \in DOMAIN active_servers :
            LET s == active_servers[p] IN
            /\ srv[s].running
            /\ srv[s].st \in {"loop", "accept", "add", "addConn"}
            /\ srv[s].soc = "listening"

\* --------------------------------------------------------------- C9

\* The operator's step that runs start_proxy_port for a port that is registered with
\* a running Server.
ReopenStep ==
    /\ opc = "start" /\ opc' \notin {"start", "cleanup"}
    /\ IntValid(op.input)
    /\ IntOf(op.input) \in DOMAIN active_servers
    /\ srv[active_servers[IntOf(op.input)]].running

\* C9 as claimed: opening a registered, running port again reports success and
\* changes nothing.
C9_AsClaimed ==
    [][ReopenStep =>
          /\ result' = "started"
          /\ active_servers' = active_servers /\ srv' = srv /\ conn' = conn]_vars

\* C9 (amended): opening a registered, running port again is refused with the message
\* that the port is already in use, and is a no-op: no Server is created, no socket is
\* bound, and the registry, every Server and every connection are unchanged.
C9_Reopen ==
    [][ReopenStep =>
          /\ opc' = "menu"
          /\ result' = "in_use"
          /\ active_servers' = active_servers /\ srv' = srv /\ conn' = conn
          /\ saved_state' = saved_state]_vars

\* A second open of a registered port has been refused; one Server listens on it.
C9_Witness ==
    /\ opc = "menu" /\ result = "in_use"
    /\ \E p \in DOMAIN active_servers :
          /\ srv[active_servers[p]].running
          /\ Cardinality({s \in ServerIds : srv[s].port = p /\ srv[s].soc = "listening"}) = 1

\* -------------------------------------------------------------- C10

\* The operator's step that runs stop_proxy_port for a port that is not registered.
CloseMissingStep ==
    /\ opc = "stop" /\ opc' \notin {"stop", "cleanup"}
    /\ IntValid(op.input)
    /\ IntOf(op.input) \notin DOMAIN active_servers

\* C10: closing a port that is not in the registry returns normally with the message
\* that no proxy is active there, and leaves the registry, every Server (running flag,
\* socket, connection list) and every connection unchanged.
C10_CloseMissing ==
    [][CloseMissingStep =>
          /\ opc' = "menu"
          /\ result' = "no_proxy"
          /\ active_servers' = active_servers /\ srv' = srv /\ conn' = conn
          /\ saved_state' = saved_state]_vars

\* A close of an unregistered port has been refused while a registered Server runs
\* with a connection in its list.
C10_Witness ==
    /\ opc = "menu" /\ result = "no_proxy"
    /\ \E p \in DOMAIN active_servers :
          /\ srv[active_servers[p]].running
          /\ srv[active_servers[p]].soc = "listening"
          /\ srv[active_servers[p]].threads # << >>

\* -------------------------------------------------------------- C11

\* The Server a step of stop_proxy_port / Server.close works on.
ClosingServer == IF opc = "stop" THEN StopTarget(IntOf(op.input)) ELSE op.server

\* A step of the operator's thread inside stop_proxy_port's pop(port).close().
CloseStep ==
    \/ opc = "stop" /\ opc' = "close_lock"
    \/ op.caller = "stop" /\ opc \in {"close_lock", "close_conns", "close_soc"} /\ opc' # opc

\* C11: every step of closing port p leaves each Server of another port as it was
\* (running flag, listening socket, connection list), leaves the registry entries of
\* the other ports and every connection of another Server as they were, and, when the
\* close goes on or returns to the menu, leaves shutdown_requested, the flag that ends
\* the relay loops, as it was.
C11_Frame ==
    [][CloseStep =>
          /\ \A t \in ServerIds \ {ClosingServer} : srv'[t] = srv[t]
          /\ \A c \in ConnIds : conn[c].server # ClosingServer => conn'[c] = conn[c]
          /\ \A q \in DOMAIN active_servers :
                active_servers[q] # ClosingServer =>
                    q \in DOMAIN active_servers' /\ active_servers'[q] = active_servers[q]
          /\ opc' \in {"close_lock", "close_conns", "close_soc", "menu"} =>
                shutdown_requested' = shutdown_requested]_vars

\* A port has been closed while the Server of another port runs with a connection in
\* flight, its client socket open.
C11_Witness ==
    /\ opc = "menu" /\ result = "stopped" /\ ~shutdown_requested
    /\ \E t \in ServerIds : \E c \in ConnIds :
          /\ srv[t].running /\ srv[t].soc = "listening"
          /\ srv[t].port \in DOMAIN active_servers
          /\ Contains(srv[t].threads, c)
          /\ conn[c].st = "run" /\ conn[c].clientSock = "open"
          /\ \E u \in ServerIds \ {t} : srv[u].soc = "closed" /\ ~srv[u].running

\* -------------------------------------------------------------- C12

\* Server.close has been called on s and has returned.
Stopped(s) ==
    /\ srv[s].st # "unused" /\ ~srv[s].running /\ srv[s].soc = "closed"
    /\ ~(opc \in {"close_lock", "close_conns", "close_soc"} /\ op.server = s)

\* C12: once Server.close has returned for a Server, none of the connections it
\* accepted is still running with close() never called on it.
C12_AsClaimed ==
    \A s \in ServerIds : \A c \in ConnIds :
        (Stopped(s) /\ conn[c].server = s) =>
            ~(conn[c].st \in {"run", "printLog"}
                /\ ~conn[c].clientClosed /\ conn[c].clientSock = "open")

\* -------------------------------------------------------------- C13

\* C13: cleanup_and_exit leaves the registry empty when it exits, and each Server it
\* pops has its running flag false and its listening socket closed when its close()
\* returns to the loop, whatever happened while the Servers before it were stopped.
C13_AsClaimed ==
    [][/\ (opc = "cleanup" /\ opc' = "exited") => active_servers' = << >>
       /\ (opc = "close_soc" /\ op.caller = "cleanup" /\ opc' = "cleanup") =>
             /\ ~srv'[op.server].running
             /\ srv'[op.server].soc = "closed"]_vars

\* -------------------------------------------------------------- C14

\* The steps of the operator's thread inside start_proxy_port, stop_proxy_port and
\* cleanup_and_exit (not the operator's choice at the menu, not a signal).
OperatorNext ==
    \/ start_proxy_port
    \/ start_proxy_port_check
    \/ stop_proxy_port
    \/ ServerClose_lock
    \/ ServerClose_conns
    \/ ServerClose_soc
    \/ cleanup_and_exit

\* The steps of a Server's thread that take or hold one of its locks.
ServerLockNext(s) ==
    \/ Server_printLog_lock(s)
    \/ Server_printLog(s)
    \/ Server_addConn_lock(s)
    \/ Server_addConn(s)
    \/ Server_finally_lock(s)
    \/ Server_finally_conns(s)

\* The steps of a connection's thread that take or hold one of the Server's locks.
ConnLockNext(c) ==
    \/ Conn_printLog_lock(c)
    \/ Conn_printLog(c)
    \/ Conn_removeConn_lock(c)
    \/ Conn_removeConn(c)

\* The port numbers the operator types when the calls are followed to their end.
PortInputs == {PortStr(p) : p \in Ports}

\* The program with an operator who types port numbers.
PortNext ==
    \/ \E call \in {"start", "stop"}, inp \in PortInputs : Menu(call, inp)
    \/ OperatorNext
    \/ signal_handler
    \/ \E s \in ServerIds :
          \/ Server_bind(s)
          \/ Server_loop(s)
          \/ Server_accept_timeout(s)
          \/ Server_accept(s)
          \/ Server_accept_error(s)
          \/ Server_finally_soc(s)
          \/ ServerLockNext(s)
    \/ \E c \in ConnIds :
          \/ Conn_close(c)
          \/ ConnLockNext(c)

\* Fairness: every thread is scheduled, so a thread that can take a step of its code
\* takes it.  Nothing obliges the operator to choose, a client to connect, a tunnel to
\* end or a signal to arrive.
FairSpec ==
    /\ Init /\ [][PortNext]_vars
    /\ WF_vars(OperatorNext)
    /\ \A s \in ServerIds : WF_vars(ServerLockNext(s))
    /\ \A c \in ConnIds : WF_vars(ConnLockNext(c))

\* The operator is inside a call that opens or closes a port.
InCall == opc \in {"start", "started", "stop", "close_lock", "close_conns", "close_soc"}

\* The thread that holds a lock of Server s is at the statement that ends the
\* with-block, where it waits for nothing; the one exception is the main thread that a
\* signal interrupted inside the block, which then runs cleanup_and_exit to the
\* program's exit.
HolderRuns(s) ==
    /\ srv[s].threadsLock = RunThread => srv[s].st \in {"addConn", "finally_conns"}
    /\ srv[s].threadsLock = MainThread =>
          \/ opc = "close_conns" /\ op.server = s
          \/ shutdown_requested /\ opc \in {"cleanup", "close_lock", "close_conns", "close_soc"}
    /\ \A c \in ConnIds :
          /\ srv[s].threadsLock = c => conn[c].st = "removeConn" /\ conn[c].server = s
          /\ srv[s].logLock = c => conn[c].st = "printLog" /\ conn[c].server = s
    /\ srv[s].logLock = RunThread => srv[s].st = "printLog"
    /\ srv[s].logLock # MainThread

\* C14: a call that opens or closes a port comes to its end (the operator is back at
\* the menu, or the program is on its way out and exits), and no thread that holds a
\* lock waits for anything, so the threads do not deadlock.
C14_Returns ==
    /\ [](\A s \in ServerIds : HolderRuns(s))
    /\ InCall ~> (opc \in {"menu", "exited"})

\* The operator, closing a port, waits for the Server's threadsLock, which the
\* Server's thread or a connection's thread holds.
C14_Witness ==
    /\ opc = "close_lock"
    /\ srv[op.server].threadsLock \notin {Unlocked, MainThread}

\* -------------------------------------------------------------- C15

\* The thread of Server s has left its accept loop.
LoopEnded(s) == srv[s].st \in {"finally", "finally_conns", "finally_soc", "exited"}

\* C15: a Server that bound its port leaves its accept loop only after a stop: its
\* running flag has been cleared or shutdown has been requested.  An accept error
\* alone leaves it in the loop.
C15_AsClaimed ==
    \A s \in ServerIds :
        (LoopEnded(s) /\ srv[s].running) => shutdown_requested

\* -------------------------------------------------------------- C16

\* A step of the thread of connection c: it logs, fails or ends and closes, or takes
\* itself off its Server's list.
ConnStep(c) ==
    /\ conn[c].st \in {"run", "printLog", "closed", "removeConn"}
    /\ conn'[c].st # conn[c].st
    /\ opc' # "exited"

Count(l, x) == Cardinality({i \in 1..Len(l) : l[i] = x})

\* C17: while the program runs, a connection whose handler is running, once addConn
\* has returned for it on a Server that was running, is in that Server's list exactly
\* once, and a connection whose handler has finished is in no list.
C17_AsClaimed ==
    opc # "exited" =>
        \A c \in ConnIds :
            /\ (/\ conn[c].st \in {"run", "printLog", "closed", "removeConn"}
                /\ srv[conn[c].server].pending # c
                /\ srv[conn[c].server].running)
                   => Count(srv[conn[c].server].threads, c) = 1
            /\ conn[c].st = "done" =>
                   \A s \in ServerIds : Count(srv[s].threads, c) = 0

\* -------------------------------------------------------------- C18

\* C18: after ConnectionHandler.close has returned, the client socket is closed and
\* so is the upstream socket if one was created; and a closed flag that is set stands
\* for a socket that is closed (or, for the upstream, was never created).
C18_AsClaimed ==
    /\ pc = "done" => (clientSock = "closed" /\ target \in {"none", "closed"})
    /\ clientClosed => clientSock = "closed"
    /\ targetClosed => target \in {"none", "closed"}

\* -------------------------------------------------------------- C19

\* C19: when stop_proxy_port has closed a Server and reports the port closed, that
\* Server's listening socket is closed, so that it does not stand in the way of an
\* open of the port that follows.
C19_AsClaimed ==
    [][(opc = "close_soc" /\ op.caller = "stop" /\ opc' = "menu") =>
          srv'[op.server].soc = "closed"]_vars

\* -------------------------------------------------------------- C20

\* C20: when the thread of a Server whose bind or listen failed ends, the Server is
\* not running, holds no socket that is open, is not in the registry, and every other
\* Server is as it was.
C20_AsClaimed ==
    [][\A s \in ServerIds :
          (srv[s].st = "printLog" /\ srv'[s].st = "exited") =>
              /\ ~srv'[s].running
              /\ srv'[s].soc \in {"none", "closed"}
              /\ \A p \in DOMAIN active_servers' : active_servers'[p] # s
              /\ opc' # "exited" => \A t \in ServerIds \ {s} : srv'[t] = srv[t]]_vars

\* -------------------------------------------------------------- C21

\* C21: when the relay loop has ended without a shutdown request and neither
\* connection was reset (a side ended its stream, or the tunnel idled out), nothing
\* that either side sent before the end is left unread: it has been relayed to the
\* other side.
C21_AsClaimed ==
    (pc \in {"close", "done"} /\ tunnelled /\ ~shutdown_requested
        /\ cstate # "rst" /\ tstate # "rst") =>
            tin = << >> /\ cin = << >>

\* -------------------------------------------------------------- C22

\* One pass of the relay loop: the loop ends, or the idle count changes, or bytes are
\* taken from a socket (the peers only add bytes and never touch the count).
TunnelStep ==
    /\ pc = "tunnel"
    /\ \/ pc' # pc
       \/ count' # count
       \/ Len(cin') < Len(cin)
       \/ Len(tin') < Len(tin)

\* A socket has end-of-stream or an error to report.
EndReported ==
    \/ cstate = "rst" \/ (cstate = "fin" /\ cin = << >>)
    \/ tstate = "rst" \/ (tstate = "fin" /\ tin = << >>)

====
